---- MODULE Spec2Model ----
(***************************************************************************)
(* Model of src/collision/contact_reporting.rs: the report_contacts system *)
(* that sends Collision / CollisionStarted / CollisionEnded events and     *)
(* updates the CollidingEntities component of the entities of each pair.   *)
(*                                                                         *)
(* The contact registry (Collisions) is written by the narrow phase, which *)
(* is not part of this file: it is modelled from its contract (records are *)
(* updated in place every step, during_previous_frame takes the value that *)
(* during_current_frame had in the preceding step, new records start with  *)
(* during_previous_frame = FALSE, records may be removed at any step). The  *)
(* registry is a map from pair keys to records; the order in which a pass  *)
(* iterates over it is whatever the map yields in that step.               *)
(***************************************************************************)
EXTENDS Naturals, Sequences, FiniteSets, Bags, TLC

\* Bounds of the model.
MaxPairs == 2       \* most records the registry holds at once

Entities == {"A", "B", "C"}
Payloads == {"m1"}
NoPayload == "m0"

\* Pair keys of the registry: one (entity1, entity2) tuple per unordered pair.
Keys == {<<"A", "B">>, <<"A", "C">>, <<"B", "C">>}

VARIABLES
    collisions,     \* Res<Collisions>: the registry, a map from pair keys to records
    colliding,      \* CollidingEntities of every entity
    resolvable,     \* entities for which colliders.get_mut succeeds
    collision_ev,   \* events written to EventWriter<Collision> in this step
    started_ev,     \* events written to EventWriter<CollisionStarted> in this step
    ended_ev,       \* events written to EventWriter<CollisionEnded> in this step
    diagnostics,    \* CollisionDiagnostics.collision_events, in clock ticks
    pc,             \* "detect" (upstream at work, pass not yet run), "done" (pass run)
    visited,        \* keys the for loop of this pass has visited, in iteration order
    oplog,          \* writes and set mutations of this pass, in program order
    pre,            \* CollidingEntities as they were when the pass began
    active,         \* history: pairs sent a CollisionStarted and no CollisionEnded since,
                    \* while their record lives
    faithful        \* history: per pair, both entities resolvable in every pass so far
                    \* and no record of the pair removed while the pair was active

vars == <<collisions, colliding, resolvable, collision_ev, started_ev, ended_ev,
          diagnostics, pc, visited, oplog, pre, active, faithful>>

Pairs == {{k[1], k[2]} : k \in Keys}

----------------------------------------------------------------------------
\* Pure parts of the loop body. A loop state s carries what one iteration
\* reads and writes: the sets, the three event streams and the log.

\* Mutant: the set is replaced by the inserted entity.
Insert_Replace(set, x) == {x}

\* Mutant: inserting an entity that is already in the set takes it out.
Insert_Toggle(set, x) == IF x \in set THEN set \ {x} ELSE set \cup {x}

Insert(set, x) == set \cup {x}

\* Mutant: the whole set is cleared.
Remove_Clear(set, x) == {}

Remove(set, x) == set \ {x}

GetMut(q, e) == e \in q

Op(kind, e1, e2) == [kind |-> kind, e1 |-> e1, e2 |-> e2]

\* Mutant: the event carries a record without the contact data.
WriteCollision_Default(s, c) ==
    [s EXCEPT !.collision_ev = Append(@, [c EXCEPT !.payload = NoPayload]),
              !.oplog = Append(@, Op("Collision", c.entity1, c.entity2))]

WriteCollision(s, c) ==
    [s EXCEPT !.collision_ev = Append(@, c),
              !.oplog = Append(@, Op("Collision", c.entity1, c.entity2))]

WriteStarted(s, e1, e2) ==
    [s EXCEPT !.started_ev = Append(@, <<e1, e2>>),
              !.oplog = Append(@, Op("CollisionStarted", e1, e2))]

WriteEnded(s, e1, e2) ==
    [s EXCEPT !.ended_ev = Append(@, <<e1, e2>>),
              !.oplog = Append(@, Op("CollisionEnded", e1, e2))]

\* Mutant: the entity itself is inserted instead of the other one.
InsertColliding_Self(s, q, e, x) ==
    IF GetMut(q, e)
    THEN [s EXCEPT !.colliding[e] = Insert(@, e),
                   !.oplog = Append(@, Op("insert", e, e))]
    ELSE s

\* if let Ok(mut set) = colliders.get_mut(e) { set.insert(x); }
InsertColliding(s, q, e, x) ==
    IF GetMut(q, e)
    THEN [s EXCEPT !.colliding[e] = Insert(@, x),
                   !.oplog = Append(@, Op("insert", e, x))]
    ELSE s

\* Mutant: the removal is forgotten.
RemoveColliding_Forget(s, q, e, x) == s

\* if let Ok(mut set) = colliders.get_mut(e) { set.remove(x); }
RemoveColliding(s, q, e, x) ==
    IF GetMut(q, e)
    THEN [s EXCEPT !.colliding[e] = Remove(@, x),
                   !.oplog = Append(@, Op("remove", e, x))]
    ELSE s

\* Mutant: the previous frame is not looked at.
IsStarted_Always(c) == TRUE

IsStarted(c) == ~c.during_previous_frame

\* Mutant: the previous frame is not looked at.
IsEnded_IgnorePrevious(c) == ~c.during_current_frame

IsEnded(c) == ~c.during_current_frame /\ c.during_previous_frame

\* Mutant: the second lookup is nested in the success of the first.
CollisionStartedBranch_Nested(s, c, q) ==
    LET s1 == WriteStarted(s, c.entity1, c.entity2)
    IN  IF GetMut(q, c.entity1)
        THEN InsertColliding(InsertColliding(s1, q, c.entity1, c.entity2),
                             q, c.entity2, c.entity1)
        ELSE s1

\* Mutant: only the first entity's set gains the other entity.
CollisionStartedBranch_OneSided(s, c, q) ==
    LET s1 == WriteStarted(s, c.entity1, c.entity2)
    IN  InsertColliding(s1, q, c.entity1, c.entity2)

\* Mutant: only the second entity's set gains the other entity.
CollisionStartedBranch_SecondOnly(s, c, q) ==
    LET s1 == WriteStarted(s, c.entity1, c.entity2)
    IN  InsertColliding(s1, q, c.entity2, c.entity1)

CollisionStartedBranch(s, c, q) ==
    LET s1 == WriteStarted(s, c.entity1, c.entity2)
        s2 == InsertColliding(s1, q, c.entity1, c.entity2)
    IN  InsertColliding(s2, q, c.entity2, c.entity1)

\* Mutant: Collision is sent only on the step the collision started.
CurrentFrameBranch_EdgeOnly(s, c, q) ==
    IF c.during_current_frame /\ IsStarted(c)
    THEN CollisionStartedBranch(WriteCollision(s, c), c, q)
    ELSE s

\* Mutant: Collision is sent after the started branch.
CurrentFrameBranch_StartedFirst(s, c, q) ==
    IF c.during_current_frame
    THEN IF IsStarted(c)
         THEN WriteCollision(CollisionStartedBranch(s, c, q), c)
         ELSE WriteCollision(s, c)
    ELSE s

CurrentFrameBranch(s, c, q) ==
    IF c.during_current_frame
    THEN LET s1 == WriteCollision(s, c)
         IN  IF IsStarted(c) THEN CollisionStartedBranch(s1, c, q) ELSE s1
    ELSE s

\* Mutant: only the first entity's set loses the other entity.
CollisionEndedBranch_OneSided(s, c, q) ==
    LET s1 == WriteEnded(s, c.entity1, c.entity2)
    IN  RemoveColliding(s1, q, c.entity1, c.entity2)

\* Mutant: CollisionEnded is sent only if the first lookup succeeds.
CollisionEndedBranch_IfResolved(s, c, q) ==
    IF GetMut(q, c.entity1)
    THEN LET s1 == WriteEnded(s, c.entity1, c.entity2)
             s2 == RemoveColliding(s1, q, c.entity1, c.entity2)
         IN  RemoveColliding(s2, q, c.entity2, c.entity1)
    ELSE RemoveColliding(s, q, c.entity2, c.entity1)

CollisionEndedBranch(s, c, q) ==
    LET s1 == WriteEnded(s, c.entity1, c.entity2)
        s2 == RemoveColliding(s1, q, c.entity1, c.entity2)
    IN  RemoveColliding(s2, q, c.entity2, c.entity1)

\* Mutant: the ended branch is taken whenever the pair touched in the
\* previous frame, also if it still does.
LoopBody_EndOnPrevious(s, c, q) ==
    LET s1 == CurrentFrameBranch(s, c, q)
    IN  IF c.during_previous_frame THEN CollisionEndedBranch(s1, c, q) ELSE s1

LoopBody(s, c, q) ==
    LET s1 == CurrentFrameBranch(s, c, q)
    IN  IF IsEnded(c) THEN CollisionEndedBranch(s1, c, q) ELSE s1

LoopState == [colliding |-> colliding, collision_ev |-> collision_ev,
              started_ev |-> started_ev, ended_ev |-> ended_ev, oplog |-> oplog,
              visited |-> visited]

\* The orders in which the keys of a registry can be iterated.
IterationOrders(reg) ==
    {f \in [1..Cardinality(DOMAIN reg) -> DOMAIN reg] :
        \A i, j \in 1..Cardinality(DOMAIN reg) : f[i] = f[j] => i = j}

\* Mutant: the loop is left after the first record it visits.
ForEach_FirstOnly(s, reg, order, i, q) ==
    IF i > Len(order)
    THEN s
    ELSE LoopBody([s EXCEPT !.visited = Append(@, order[i])], reg[order[i]], q)

\* for ((entity1, entity2), contacts) in collisions.get_internal().iter() { .. }
\* with the iterator yielding the keys in the given order, from position i on.
RECURSIVE ForEach(_, _, _, _, _)
ForEach(s, reg, order, i, q) ==
    IF i > Len(order)
    THEN s
    ELSE ForEach(LoopBody([s EXCEPT !.visited = Append(@, order[i])], reg[order[i]], q),
                 reg, order, i + 1, q)

\* The pairs whose last edge event is a CollisionStarted, after a pass that
\* left the streams in s.
ActiveAfter(s, act) ==
    {p \in Pairs :
        \/ \E j \in 1..Len(s.started_ev) : {s.started_ev[j][1], s.started_ev[j][2]} = p
        \/ /\ p \in act
           /\ ~\E j \in 1..Len(s.ended_ev) : {s.ended_ev[j][1], s.ended_ev[j][2]} = p}

----------------------------------------------------------------------------
\* The upstream narrow phase and the entity storage (outside this file).

Contacts(e1, e2, cur, prev, m) ==
    [entity1 |-> e1, entity2 |-> e2, during_current_frame |-> cur,
     during_previous_frame |-> prev, payload |-> m]

PairOf(c) == {c.entity1, c.entity2}

InRegistry(p) == \E k \in DOMAIN collisions : PairOf(collisions[k]) = p

\* Start of a step: every record's previous flag takes the current one and
\* the current flag is cleared until the pair is found touching again; the
\* event streams of the step before are dropped.
UpstreamBeginStep ==
    /\ pc = "done"
    /\ collisions' = [k \in DOMAIN collisions |->
                        Contacts(collisions[k].entity1, collisions[k].entity2, FALSE,
                                 collisions[k].during_current_frame, NoPayload)]
    /\ collision_ev' = <<>>
    /\ started_ev' = <<>>
    /\ ended_ev' = <<>>
    /\ oplog' = <<>>
    /\ visited' = <<>>
    /\ pre' = colliding
    /\ pc' = "detect"
    /\ UNCHANGED <<colliding, resolvable, diagnostics, active, faithful>>

\* The pair of the record under key k is found touching in this step.
UpstreamTouch(k, m) ==
    /\ pc = "detect"
    /\ k \in DOMAIN collisions
    /\ ~collisions[k].during_current_frame
    /\ collisions' = [collisions EXCEPT ![k].during_current_frame = TRUE,
                                        ![k].payload = m]
    /\ UNCHANGED <<colliding, resolvable, collision_ev, started_ev, ended_ev,
                   diagnostics, pc, visited, oplog, pre, active, faithful>>

\* A pair not yet in the registry becomes of interest.
UpstreamAddPair(k) ==
    /\ pc = "detect"
    /\ Cardinality(DOMAIN collisions) < MaxPairs
    /\ ~InRegistry({k[1], k[2]})
    /\ collisions' = [j \in DOMAIN collisions \cup {k} |->
                        IF j = k THEN Contacts(k[1], k[2], FALSE, FALSE, NoPayload)
                        ELSE collisions[j]]
    /\ UNCHANGED <<colliding, resolvable, collision_ev, started_ev, ended_ev,
                   diagnostics, pc, visited, oplog, pre, active, faithful>>

\* The record under key k is removed.
UpstreamRemovePair(k) ==
    /\ pc = "detect"
    /\ k \in DOMAIN collisions
    /\ collisions' = [j \in DOMAIN collisions \ {k} |-> collisions[j]]
    /\ active' = active \ {PairOf(collisions[k])}
    /\ faithful' = [faithful EXCEPT ![PairOf(collisions[k])] =
                        @ /\ ~collisions[k].during_previous_frame]
    /\ UNCHANGED <<colliding, resolvable, collision_ev, started_ev, ended_ev,
                   diagnostics, pc, visited, oplog, pre>>

\* An entity stops matching the query (its set is kept by the storage).
MakeUnresolvable(e) ==
    /\ pc = "detect"
    /\ e \in resolvable
    /\ resolvable' = resolvable \ {e}
    /\ UNCHANGED <<collisions, colliding, collision_ev, started_ev, ended_ev,
                   diagnostics, pc, visited, oplog, pre, active, faithful>>

\* An entity matches the query again.
MakeResolvable(e) ==
    /\ pc = "detect"
    /\ e \notin resolvable
    /\ resolvable' = resolvable \cup {e}
    /\ UNCHANGED <<collisions, colliding, collision_ev, started_ev, ended_ev,
                   diagnostics, pc, visited, oplog, pre, active, faithful>>

----------------------------------------------------------------------------
\* report_contacts: the whole system runs as one step of the schedule.

\* Mutant: the sample is added to the one of the pass before.
Elapsed_Accumulate(s) == diagnostics + Len(s.visited)

\* start.elapsed(): the clock is read at the start and at the end of the pass
\* and ticks once for every record the loop visits.
Elapsed(s) == Len(s.visited)

\* Mutant: the pass ages the flags of the records it has reported.
ReportContacts_AgesFlags ==
    /\ pc = "detect"
    /\ \E order \in IterationOrders(collisions) :
       \E s \in {ForEach(LoopState, collisions, order, 1, resolvable)} :
           /\ colliding' = s.colliding
           /\ collision_ev' = s.collision_ev
           /\ started_ev' = s.started_ev
           /\ ended_ev' = s.ended_ev
           /\ visited' = s.visited
           /\ oplog' = Append(s.oplog, Op("timing", "-", "-"))
           /\ active' = ActiveAfter(s, active)
           /\ diagnostics' = Elapsed(s)
    /\ pre' = colliding
    /\ faithful' = [p \in Pairs |-> faithful[p] /\ p \subseteq resolvable]
    /\ pc' = "done"
    /\ collisions' = [k \in DOMAIN collisions |->
                        [collisions[k] EXCEPT !.during_previous_frame =
                                                  collisions[k].during_current_frame]]
    /\ UNCHANGED resolvable

ReportContacts ==
    /\ pc = "detect"
    /\ \E order \in IterationOrders(collisions) :
       \E s \in {ForEach(LoopState, collisions, order, 1, resolvable)} :
           /\ colliding' = s.colliding
           /\ collision_ev' = s.collision_ev
           /\ started_ev' = s.started_ev
           /\ ended_ev' = s.ended_ev
           /\ visited' = s.visited
           /\ oplog' = Append(s.oplog, Op("timing", "-", "-"))
           /\ active' = ActiveAfter(s, active)
           /\ diagnostics' = Elapsed(s)
    /\ pre' = colliding
    /\ faithful' = [p \in Pairs |-> faithful[p] /\ p \subseteq resolvable]
    /\ pc' = "done"
    /\ UNCHANGED <<collisions, resolvable>>

----------------------------------------------------------------------------
Init ==
    /\ collisions = [k \in {} |-> Contacts(k[1], k[2], FALSE, FALSE, NoPayload)]
    /\ colliding = [e \in Entities |-> {}]
    /\ resolvable = Entities
    /\ collision_ev = <<>>
    /\ started_ev = <<>>
    /\ ended_ev = <<>>
    /\ diagnostics = 0
    /\ pc = "detect"
    /\ visited = <<>>
    /\ oplog = <<>>
    /\ pre = [e \in Entities |-> {}]
    /\ active = {}
    /\ faithful = [p \in Pairs |-> TRUE]

Next ==
    \/ UpstreamBeginStep
    \/ \E k \in Keys, m \in Payloads : UpstreamTouch(k, m)
    \/ \E k \in Keys : UpstreamAddPair(k)
    \/ \E k \in Keys : UpstreamRemovePair(k)
    \/ \E e \in Entities : MakeUnresolvable(e)
    \/ \E e \in Entities : MakeResolvable(e)
    \/ ReportContacts

Spec == Init /\ [][Next]_vars

----------------------------------------------------------------------------
\* The pass as a function of its inputs: one invocation on any registry of
\* at most MaxPairs records with any flags, any sets and any resolvability.

RecordsOf(k) ==
    {Contacts(k[1], k[2], cur, prev, IF cur THEN m ELSE NoPayload) :
        cur \in BOOLEAN, prev \in BOOLEAN, m \in Payloads}

Registries ==
    UNION {{reg \in [D -> UNION {RecordsOf(k) : k \in D}] :
                \A k \in D : reg[k] \in RecordsOf(k)} :
           D \in {D \in SUBSET Keys : Cardinality(D) <= MaxPairs}}

CollidingSets == {sets \in [Entities -> SUBSET Entities] : \A e \in Entities : e \notin sets[e]}

SnapshotInit ==
    /\ collisions \in Registries
    /\ colliding \in CollidingSets
    /\ resolvable \in SUBSET Entities
    /\ collision_ev = <<>>
    /\ started_ev = <<>>
    /\ ended_ev = <<>>
    /\ diagnostics = 0
    /\ pc = "detect"
    /\ visited = <<>>
    /\ oplog = <<>>
    /\ pre = colliding
    /\ active = {PairOf(collisions[k]) : k \in {j \in DOMAIN collisions :
                                                  collisions[j].during_previous_frame}}
    /\ faithful = [p \in Pairs |-> FALSE]

SnapshotNext == ReportContacts

SnapshotSpec == SnapshotInit /\ [][SnapshotNext]_vars

\* The schedule runs the system once it is due: nothing in it waits.
SnapshotFairSpec == SnapshotSpec /\ WF_vars(ReportContacts)

----------------------------------------------------------------------------
\* What a finished pass leaves behind, read off the three streams and the log.

Done == pc = "done"

Positions == DOMAIN collisions

StartedClass(c) == ~c.during_previous_frame /\ c.during_current_frame

ContinuingClass(c) == c.during_previous_frame /\ c.during_current_frame

EndedClass(c) == c.during_previous_frame /\ ~c.during_current_frame

SilentClass(c) == ~c.during_previous_frame /\ ~c.during_current_frame

BothResolvable(c) == c.entity1 \in resolvable /\ c.entity2 \in resolvable

NumCollision(p) ==
    Cardinality({j \in 1..Len(collision_ev) : PairOf(collision_ev[j]) = p})

NumStarted(p) ==
    Cardinality({j \in 1..Len(started_ev) : {started_ev[j][1], started_ev[j][2]} = p})

NumEnded(p) ==
    Cardinality({j \in 1..Len(ended_ev) : {ended_ev[j][1], ended_ev[j][2]} = p})

NumStartedExact(e1, e2) ==
    Cardinality({j \in 1..Len(started_ev) : started_ev[j] = <<e1, e2>>})

NumEndedExact(e1, e2) ==
    Cardinality({j \in 1..Len(ended_ev) : ended_ev[j] = <<e1, e2>>})

Mutual(sets, c) == c.entity2 \in sets[c.entity1] /\ c.entity1 \in sets[c.entity2]

Neither(sets, c) == c.entity2 \notin sets[c.entity1] /\ c.entity1 \notin sets[c.entity2]

\* Set mutations the pass made to the membership of one entity of p in the
\* set of the other.
MutationsFor(p) ==
    {j \in 1..Len(oplog) : /\ oplog[j].kind \in {"insert", "remove"}
                           /\ {oplog[j].e1, oplog[j].e2} = p}

\* C1: after a pass, every record with previous = FALSE and current = TRUE
\* has exactly one CollisionStarted(entity1, entity2), exactly one Collision
\* and no CollisionEnded for its pair, and if both entities are resolvable
\* each one's set contains the other.
C1_EdgeTriggering ==
    Done => \A i \in Positions :
        LET c == collisions[i] IN
        StartedClass(c) =>
            /\ NumStartedExact(c.entity1, c.entity2) = 1
            /\ NumStarted(PairOf(c)) = 1
            /\ NumCollision(PairOf(c)) = 1
            /\ NumEnded(PairOf(c)) = 0
            /\ (BothResolvable(c) => Mutual(colliding, c))

C1_Witness ==
    /\ Done
    /\ \E i \in Positions :
          /\ StartedClass(collisions[i])
          /\ BothResolvable(collisions[i])
          /\ Neither(pre, collisions[i])
          /\ Mutual(colliding, collisions[i])

\* C2: after a pass, every record with previous = TRUE and current = FALSE
\* has exactly one CollisionEnded(entity1, entity2) and no Collision and no
\* CollisionStarted for its pair, and if both entities are resolvable
\* neither one's set contains the other.
C2_EndTriggering ==
    Done => \A i \in Positions :
        LET c == collisions[i] IN
        EndedClass(c) =>
            /\ NumEndedExact(c.entity1, c.entity2) = 1
            /\ NumEnded(PairOf(c)) = 1
            /\ NumCollision(PairOf(c)) = 0
            /\ NumStarted(PairOf(c)) = 0
            /\ (BothResolvable(c) => Neither(colliding, c))

C2_Witness ==
    /\ Done
    /\ \E i \in Positions :
          /\ EndedClass(collisions[i])
          /\ BothResolvable(collisions[i])
          /\ Mutual(pre, collisions[i])
          /\ Neither(colliding, collisions[i])

\* C3: after a pass, every record with previous = TRUE and current = TRUE
\* has exactly one Collision and no CollisionStarted and no CollisionEnded
\* for its pair, the pass made no insertion or removal for the pair, and
\* each entity is in the other's set exactly if it was before the pass.
C3_LevelTriggering ==
    Done => \A i \in Positions :
        LET c == collisions[i] IN
        ContinuingClass(c) =>
            /\ NumCollision(PairOf(c)) = 1
            /\ NumStarted(PairOf(c)) = 0
            /\ NumEnded(PairOf(c)) = 0
            /\ MutationsFor(PairOf(c)) = {}
            /\ (c.entity2 \in colliding[c.entity1]) = (c.entity2 \in pre[c.entity1])
            /\ (c.entity1 \in colliding[c.entity2]) = (c.entity1 \in pre[c.entity2])

C3_Witness ==
    /\ Done
    /\ \E i \in Positions :
          /\ ContinuingClass(collisions[i])
          /\ BothResolvable(collisions[i])
          /\ Mutual(colliding, collisions[i])
          /\ Len(collision_ev) = 2

\* C4 as claimed: after a pass, every record with current = TRUE whose
\* entities are both resolvable has each entity in the other's set, for
\* Started and Continuing records alike.
C4_Original ==
    Done => \A i \in Positions :
        LET c == collisions[i] IN
        (c.during_current_frame /\ BothResolvable(c)) => Mutual(colliding, c)

\* C4 as amended: after a pass, a record with current = TRUE whose entities
\* are both resolvable has each entity in the other's set if it is a Started
\* record; if it is a Continuing record it has so exactly if it had before
\* the pass (the pass does not repair a membership that a failed lookup
\* left out when the pair started).
C4_CurrentPairsAmended ==
    Done => \A i \in Positions :
        LET c == collisions[i] IN
        (c.during_current_frame /\ BothResolvable(c)) =>
            /\ StartedClass(c) => Mutual(colliding, c)
            /\ ContinuingClass(c) => (Mutual(colliding, c) <=> Mutual(pre, c))

C4_Witness ==
    /\ Done
    /\ \E i, j \in Positions :
          /\ ContinuingClass(collisions[i])
          /\ BothResolvable(collisions[i])
          /\ Mutual(pre, collisions[i])
          /\ Mutual(colliding, collisions[i])
          /\ StartedClass(collisions[j])
          /\ BothResolvable(collisions[j])
          /\ PairOf(collisions[i]) \cap PairOf(collisions[j]) # {}

\* The unresolvable entities of a record, and whether the pass ran through.
Unresolvable(c) == PairOf(c) \ resolvable

RanToCompletion ==
    /\ visited \in IterationOrders(collisions)
    /\ Len(oplog) >= 1
    /\ oplog[Len(oplog)].kind = "timing"

\* C5: after a pass, a Started record with an unresolvable entity still has
\* its CollisionStarted and Collision, a resolvable entity of it has gained
\* the other one, and an unresolvable one has its set untouched; an Ended
\* record with an unresolvable entity still has its CollisionEnded, a
\* resolvable entity of it has lost the other one; the pass made one set
\* mutation for the pair if one entity is unresolvable and none if both
\* are; and the pass ran through every record.
C5_BestEffort ==
    Done =>
        /\ RanToCompletion
        /\ \A i \in Positions :
            LET c == collisions[i] IN
            (Unresolvable(c) # {}) =>
                /\ StartedClass(c) =>
                      /\ NumStarted(PairOf(c)) = 1
                      /\ NumCollision(PairOf(c)) = 1
                      /\ c.entity1 \in resolvable => c.entity2 \in colliding[c.entity1]
                      /\ c.entity2 \in resolvable => c.entity1 \in colliding[c.entity2]
                /\ EndedClass(c) =>
                      /\ NumEnded(PairOf(c)) = 1
                      /\ c.entity1 \in resolvable => c.entity2 \notin colliding[c.entity1]
                      /\ c.entity2 \in resolvable => c.entity1 \notin colliding[c.entity2]
                /\ (StartedClass(c) \/ EndedClass(c)) =>
                      Cardinality(MutationsFor(PairOf(c))) = 2 - Cardinality(Unresolvable(c))
                /\ \A e \in Unresolvable(c) : colliding[e] = pre[e]

C5_Witness ==
    /\ Done
    /\ \E i, j \in Positions :
          /\ StartedClass(collisions[i])
          /\ collisions[i].entity1 \notin resolvable
          /\ collisions[i].entity2 \in resolvable
          /\ collisions[i].entity1 \notin pre[collisions[i].entity2]
          /\ collisions[i].entity1 \in colliding[collisions[i].entity2]
          /\ EndedClass(collisions[j])
          /\ Cardinality(Unresolvable(collisions[j])) = 1
          /\ \E e \in PairOf(collisions[j]) \cap resolvable :
                 pre[e] \cap PairOf(collisions[j]) # {}

\* C6: after a pass, a record with previous = FALSE and current = FALSE has
\* no event of any kind and no set mutation for its pair; after a pass over
\* a registry of such records only, the three streams are empty and every
\* set is as it was before the pass.
C6_SilentClass ==
    Done =>
        /\ \A i \in Positions :
              LET c == collisions[i] IN
              SilentClass(c) =>
                  /\ NumCollision(PairOf(c)) = 0
                  /\ NumStarted(PairOf(c)) = 0
                  /\ NumEnded(PairOf(c)) = 0
                  /\ MutationsFor(PairOf(c)) = {}
        /\ (\A i \in Positions : SilentClass(collisions[i])) =>
              /\ collision_ev = <<>>
              /\ started_ev = <<>>
              /\ ended_ev = <<>>
              /\ colliding = pre
              /\ \A j \in 1..Len(oplog) : oplog[j].kind = "timing"

C6_Witness ==
    /\ Done
    /\ Cardinality(Positions) = 2
    /\ \A i \in Positions : SilentClass(collisions[i])
    /\ \E i \in Positions : Mutual(colliding, collisions[i])

----------------------------------------------------------------------------
\* The pass as a function of the registry order, for comparing orders.

FreshState(sets) ==
    [colliding |-> sets, collision_ev |-> <<>>, started_ev |-> <<>>,
     ended_ev |-> <<>>, oplog |-> <<>>, visited |-> <<>>]

RunPass(reg, order, sets, q) == ForEach(FreshState(sets), reg, order, 1, q)

BagOf(seq) ==
    [x \in {seq[i] : i \in 1..Len(seq)} |->
        Cardinality({i \in 1..Len(seq) : seq[i] = x})]

SameOutcome(r1, r2) ==
    /\ r1.colliding = r2.colliding
    /\ BagOf(r1.collision_ev) = BagOf(r2.collision_ev)
    /\ BagOf(r1.started_ev) = BagOf(r2.started_ev)
    /\ BagOf(r1.ended_ev) = BagOf(r2.ended_ev)

\* C7: the pass run over any order of the records of the registry, from the
\* same sets and the same resolvable entities, ends with the same sets and
\* the same multiset of events of each kind as the pass that ran; so any two
\* orders end alike.
C7_OrderIndependence ==
    Done => \A order \in IterationOrders(collisions) :
        \E r \in {RunPass(collisions, order, pre, resolvable)} :
            SameOutcome(r, [colliding |-> colliding, collision_ev |-> collision_ev,
                            started_ev |-> started_ev, ended_ev |-> ended_ev])

C7_Witness ==
    /\ Done
    /\ \E i, j \in Positions :
          /\ StartedClass(collisions[i])
          /\ EndedClass(collisions[j])
          /\ \E e \in PairOf(collisions[i]) \cap PairOf(collisions[j]) \cap resolvable :
                /\ pre[e] \cap PairOf(collisions[j]) # {}
                /\ pre[e] \cap PairOf(collisions[i]) = {}
                /\ colliding[e] # pre[e]
    /\ \E order \in IterationOrders(collisions) :
          RunPass(collisions, order, pre, resolvable).started_ev = started_ev
    /\ \E order \in IterationOrders(collisions) :
          RunPass(collisions, order, pre, resolvable).oplog # SubSeq(oplog, 1, Len(oplog) - 1)

\* Whether the pair is touching in the step of the current registry.
TouchingNow(p) ==
    \E i \in Positions : PairOf(collisions[i]) = p /\ collisions[i].during_current_frame

Bit(b) == IF b THEN 1 ELSE 0

\* C8: in every pass and for every pair, with "active" meaning that a
\* CollisionStarted was sent for the pair and no CollisionEnded since (while
\* its record stayed in the registry): a CollisionStarted is sent exactly if
\* the pair was not active and is touching now, a CollisionEnded exactly if
\* it was active and is not touching now, a Collision exactly if it is
\* touching now, each at most once, and the pair is active afterwards exactly
\* if it is touching now. So the edge events of a pair alternate, beginning
\* with CollisionStarted.
C8_PairStateMachine ==
    [][(pc = "detect" /\ pc' = "done") =>
          \A p \in Pairs :
              /\ NumStarted(p)' = Bit(p \notin active /\ TouchingNow(p))
              /\ NumEnded(p)' = Bit(p \in active /\ ~TouchingNow(p))
              /\ NumCollision(p)' = Bit(TouchingNow(p))
              /\ (p \in active') = TouchingNow(p)]_vars

C8_Witness ==
    /\ Done
    /\ \E p, r \in Pairs :
          /\ NumEnded(p) = 1
          /\ p \notin active
          /\ NumStarted(r) = 1
          /\ r \in active
    /\ \A p \in Pairs : faithful[p]

\* C9: after a pass, for every pair whose two entities were resolvable in
\* every pass so far and whose record was never removed while the pair was
\* active, each entity is in the other's set exactly if the pair is active
\* (CollisionStarted sent, no CollisionEnded since), which is exactly if it
\* is touching in this step.
C9_SetsTrackActivity ==
    Done => \A k \in Keys :
        LET p == {k[1], k[2]} IN
        faithful[p] =>
            /\ (k[2] \in colliding[k[1]]) = (p \in active)
            /\ (k[1] \in colliding[k[2]]) = (p \in active)
            /\ (p \in active) = TouchingNow(p)

C9_Witness ==
    /\ Done
    /\ \A p \in Pairs : faithful[p]
    /\ \E i \in Positions :
          /\ EndedClass(collisions[i])
          /\ Mutual(pre, collisions[i])
          /\ colliding[collisions[i].entity1] = {}
          /\ colliding[collisions[i].entity2] = {}

\* Positions in the log of the events and of the set mutations of a record.
EventOps(c) ==
    {j \in 1..Len(oplog) :
        /\ oplog[j].kind \in {"Collision", "CollisionStarted", "CollisionEnded"}
        /\ oplog[j].e1 = c.entity1
        /\ oplog[j].e2 = c.entity2}

KindOps(c, kind) == {j \in EventOps(c) : oplog[j].kind = kind}

IsCurrent(c) == c.during_current_frame

KeysOf(reg) == [j \in 1..Len(reg) |-> <<reg[j].entity1, reg[j].entity2>>]

\* The records in the order the pass iterated over them.
Iterated == [j \in 1..Len(visited) |-> collisions[visited[j]]]

\* C10: in a pass, the Collision of a Started record is written before its
\* CollisionStarted, and both before the insertions for the pair; all events
\* of a record iterated earlier are written before any event of one iterated
\* later, so each stream lists its events in iteration order.
C10_EmissionOrder ==
    Done =>
        /\ \A i \in Positions :
              LET c == collisions[i] IN
              StartedClass(c) =>
                  /\ KindOps(c, "Collision") # {}
                  /\ KindOps(c, "CollisionStarted") # {}
                  /\ \A a \in KindOps(c, "Collision"), b \in KindOps(c, "CollisionStarted") :
                        /\ a < b
                        /\ \A m \in MutationsFor(PairOf(c)) : b < m
        /\ \A i, j \in 1..Len(visited) :
              i < j => \A a \in EventOps(Iterated[i]), b \in EventOps(Iterated[j]) : a < b
        /\ collision_ev = SelectSeq(Iterated, IsCurrent)
        /\ started_ev = KeysOf(SelectSeq(Iterated, StartedClass))
        /\ ended_ev = KeysOf(SelectSeq(Iterated, EndedClass))

C10_Witness ==
    /\ Done
    /\ Cardinality(Positions) = 2
    /\ \A i \in Positions : StartedClass(collisions[i]) /\ BothResolvable(collisions[i])
    /\ Len(oplog) = 9

----------------------------------------------------------------------------
\* The write of the timing sample.

TimingOps == {j \in 1..Len(oplog) : oplog[j].kind = "timing"}

\* C11: after a pass, the log of the pass holds exactly one write of the
\* timing slot, it is the last operation of the pass and comes after every
\* record has been visited, also when the registry is empty; the slot holds
\* the duration of this pass alone, whatever sample it held before.
C11_TimingSample ==
    Done =>
        /\ Cardinality(TimingOps) = 1
        /\ Len(oplog) \in TimingOps
        /\ visited \in IterationOrders(collisions)
        /\ diagnostics = Len(visited)

\* A pass over an empty registry, after a pass that visited a record (some
\* set is not empty) and so left a sample that was not zero.
C11_Witness ==
    /\ Done
    /\ Positions = {}
    /\ oplog = <<Op("timing", "-", "-")>>
    /\ diagnostics = 0
    /\ \E e \in Entities : colliding[e] # {}

----------------------------------------------------------------------------
\* Claims about one invocation on any snapshot.

PassStep == pc = "detect" /\ pc' = "done"

\* C12: a pass leaves the registry as it found it: the same pair keys, and
\* for each key the same during_current_frame, during_previous_frame and
\* payload, whatever the classes of the records and the resolvability of the
\* entities.
C12_RegistryReadOnly ==
    [][PassStep =>
          /\ DOMAIN collisions' = DOMAIN collisions
          /\ \A k \in DOMAIN collisions :
                /\ collisions'[k].during_current_frame = collisions[k].during_current_frame
                /\ collisions'[k].during_previous_frame = collisions[k].during_previous_frame
                /\ collisions'[k].payload = collisions[k].payload
                /\ collisions'[k] = collisions[k]]_vars

\* A pass that sent events of all three kinds and changed a set, with an
\* entity of a record unresolvable.
C12_Witness ==
    /\ Done
    /\ \E i, j \in Positions :
          /\ StartedClass(collisions[i])
          /\ EndedClass(collisions[j])
          /\ Unresolvable(collisions[j]) # {}
    /\ collision_ev # <<>>
    /\ started_ev # <<>>
    /\ ended_ev # <<>>
    /\ colliding # pre

EmptySets == [e \in Entities |-> {}]

\* C13: the three streams a pass leaves are those of the pass run over the
\* same registry in the same order from empty sets with no entity resolvable;
\* so any two passes over the same snapshot, whatever the sets they start
\* from and whatever entities are resolvable, send the same sequences of
\* Collision, CollisionStarted and CollisionEnded.
C13_NotificationsIndependent ==
    Done => \E r \in {RunPass(collisions, visited, EmptySets, {})} :
        /\ collision_ev = r.collision_ev
        /\ started_ev = r.started_ev
        /\ ended_ev = r.ended_ev

\* A pass that differs from the reference run in the sets it started from
\* and in resolvability, and that changed the sets.
C13_Witness ==
    /\ Done
    /\ resolvable = Entities
    /\ pre # EmptySets
    /\ colliding # pre
    /\ \E i, j \in Positions : StartedClass(collisions[i]) /\ EndedClass(collisions[j])
    /\ started_ev # <<>>
    /\ ended_ev # <<>>

\* Whether the registry holds a record of the pair {x, y} of the given class.
HasRecord(x, y, Class(_)) ==
    \E i \in Positions : PairOf(collisions[i]) = {x, y} /\ Class(collisions[i])

SetMutations == {j \in 1..Len(oplog) : oplog[j].kind \in {"insert", "remove"}}

\* C14: after a pass, the log holds at most two set mutations per record,
\* every insertion in it is of Y into set(X) for a Started record of {X, Y}
\* and every removal of Y from set(X) for an Ended record of {X, Y}; an
\* identifier Y is new in set(X) only if {X, Y} has a Started record and
\* gone from set(X) only if {X, Y} has an Ended record, so every other
\* member is kept; and the set of an entity of no Started or Ended record
\* is as it was before the pass.
C14_LocalMutation ==
    Done =>
        /\ \A i \in Positions : Cardinality(MutationsFor(PairOf(collisions[i]))) <= 2
        /\ \A j \in SetMutations :
              /\ oplog[j].kind = "insert" => HasRecord(oplog[j].e1, oplog[j].e2, StartedClass)
              /\ oplog[j].kind = "remove" => HasRecord(oplog[j].e1, oplog[j].e2, EndedClass)
        /\ \A x, y \in Entities :
              /\ (y \in colliding[x] /\ y \notin pre[x]) => HasRecord(x, y, StartedClass)
              /\ (y \in pre[x] /\ y \notin colliding[x]) => HasRecord(x, y, EndedClass)
        /\ \A x \in Entities :
              (\A i \in Positions :
                  x \in PairOf(collisions[i]) =>
                      ~(StartedClass(collisions[i]) \/ EndedClass(collisions[i])))
              => colliding[x] = pre[x]

\* An entity gains one member and keeps another that no record is about,
\* while an entity of a Continuing record only keeps its set.
C14_Witness ==
    /\ Done
    /\ \E x, y, z \in Entities :
          /\ x # y /\ y # z /\ x # z
          /\ HasRecord(x, y, StartedClass)
          /\ HasRecord(y, z, ContinuingClass)
          /\ ~InRegistry({x, z})
          /\ pre[x] = {z}
          /\ colliding[x] = {y, z}
          /\ pre[z] = {x, y}
          /\ colliding[z] = {x, y}
    /\ Cardinality(SetMutations) = 2

NumRecords(Class(_)) == Cardinality({i \in Positions : Class(collisions[i])})

\* C15: after a pass, every Collision in the stream is, field by field, the
\* record of a registry entry with current = TRUE; every CollisionStarted
\* and CollisionEnded is the (entity1, entity2) key of a registry entry, in
\* that order, of a Started and of an Ended record; and the streams hold as
\* many events as the registry has records with current = TRUE, with
\* previous = FALSE and current = TRUE, and with previous = TRUE and
\* current = FALSE.
C15_NoSpuriousNotifications ==
    Done =>
        /\ \A j \in 1..Len(collision_ev) :
              \E i \in Positions :
                  /\ collision_ev[j] = collisions[i]
                  /\ collisions[i].during_current_frame
        /\ \A j \in 1..Len(started_ev) :
              /\ started_ev[j] \in Positions
              /\ started_ev[j] = <<collisions[started_ev[j]].entity1,
                                   collisions[started_ev[j]].entity2>>
              /\ StartedClass(collisions[started_ev[j]])
        /\ \A j \in 1..Len(ended_ev) :
              /\ ended_ev[j] \in Positions
              /\ ended_ev[j] = <<collisions[ended_ev[j]].entity1,
                                 collisions[ended_ev[j]].entity2>>
              /\ EndedClass(collisions[ended_ev[j]])
        /\ Len(collision_ev) = NumRecords(IsCurrent)
        /\ Len(started_ev) = NumRecords(StartedClass)
        /\ Len(ended_ev) = NumRecords(EndedClass)

\* A pass over a Started and an Ended record: one event of each kind, the
\* Collision with the contact data of its record.
C15_Witness ==
    /\ Done
    /\ NumRecords(StartedClass) = 1
    /\ NumRecords(EndedClass) = 1
    /\ Len(collision_ev) = 1
    /\ collision_ev[1].payload \in Payloads
    /\ Len(started_ev) = 1
    /\ Len(ended_ev) = 1

\* C16: a pass that is due is run and reaches its end; the only positions
\* are "not yet run" and "run" (there is no error or abort position); and at
\* the end every registry entry has been visited exactly once and the last
\* operation is the write of the timing slot. This for every registry of at
\* most MaxPairs records, every combination of flags and every set of
\* resolvable entities.
C16_RunsToCompletion ==
    /\ [](pc \in {"detect", "done"})
    /\ [](Done => RanToCompletion /\ Len(visited) = Cardinality(Positions))
    /\ ((pc = "detect") ~> (Done /\ RanToCompletion))

\* A finished pass over two records, one of them with both flags FALSE and
\* one an edge record whose entities are both unresolvable.
C16_Witness ==
    /\ Done
    /\ RanToCompletion
    /\ Len(visited) = 2
    /\ diagnostics = 2
    /\ \E i, j \in Positions :
          /\ SilentClass(collisions[i])
          /\ StartedClass(collisions[j]) \/ EndedClass(collisions[j])
          /\ Unresolvable(collisions[j]) = PairOf(collisions[j])

Symmetric(sets) == \A x, y \in Entities : (y \in sets[x]) = (x \in sets[y])

EdgeClass(c) == StartedClass(c) \/ EndedClass(c)

\* Every entity of a Started or Ended record is resolvable.
EdgesResolvable == \A i \in Positions : EdgeClass(collisions[i]) => BothResolvable(collisions[i])

\* C17: a pass that begins with symmetric sets (Y in set(X) exactly if X in
\* set(Y)) and in which every entity of a Started or Ended record is
\* resolvable ends with symmetric sets, so symmetry is kept over any
\* sequence of such passes; and if a pass that begins with symmetric sets
\* ends with Y in set(X) but X not in set(Y), the registry has a Started or
\* Ended record of {X, Y} with exactly one of the two unresolvable.
C17_SymmetryPreserved ==
    (Done /\ Symmetric(pre)) =>
        /\ EdgesResolvable => Symmetric(colliding)
        /\ \A x, y \in Entities :
              (y \in colliding[x] /\ x \notin colliding[y]) =>
                  \E i \in Positions :
                      /\ PairOf(collisions[i]) = {x, y}
                      /\ EdgeClass(collisions[i])
                      /\ Cardinality(Unresolvable(collisions[i])) = 1

\* A pass from symmetric sets that are not empty, over a Started and an
\* Ended record with all their entities resolvable, that changed the sets.
C17_Witness ==
    /\ Done
    /\ Symmetric(pre)
    /\ pre # EmptySets
    /\ EdgesResolvable
    /\ \E i, j \in Positions :
          /\ StartedClass(collisions[i]) /\ Neither(pre, collisions[i])
          /\ EndedClass(collisions[j]) /\ Mutual(pre, collisions[j])
    /\ colliding # pre
    /\ Symmetric(colliding)

\* C19: the pass run once more over the same registry with the same
\* resolvable entities, from the sets the first run left, in any order, ends
\* with the sets the first run left, so any number of further runs does; and
\* it sends the events of each kind again, the same ones as the first run
\* (in the same sequence if it iterates in the same order).
C19_IdempotentOnSets ==
    Done =>
        /\ \A order \in IterationOrders(collisions) :
              \E r \in {RunPass(collisions, order, colliding, resolvable)} :
                  /\ r.colliding = colliding
                  /\ BagOf(r.collision_ev) = BagOf(collision_ev)
                  /\ BagOf(r.started_ev) = BagOf(started_ev)
                  /\ BagOf(r.ended_ev) = BagOf(ended_ev)
        /\ \E r \in {RunPass(collisions, visited, colliding, resolvable)} :
              /\ r.collision_ev = collision_ev
              /\ r.started_ev = started_ev
              /\ r.ended_ev = ended_ev

\* A first run that changed the sets by an insertion and a removal and sent
\* a CollisionStarted and a CollisionEnded.
C19_Witness ==
    /\ Done
    /\ \E i, j \in Positions :
          /\ StartedClass(collisions[i]) /\ BothResolvable(collisions[i])
          /\ Neither(pre, collisions[i]) /\ Mutual(colliding, collisions[i])
          /\ EndedClass(collisions[j]) /\ BothResolvable(collisions[j])
          /\ Mutual(pre, collisions[j]) /\ Neither(colliding, collisions[j])
    /\ Len(started_ev) = 1
    /\ Len(ended_ev) = 1

----------------------------------------------------------------------------
\* Claims about sequences of steps.

\* C18: in every step, an identifier Y that is in set(X) and is not after
\* the step was removed by a pass whose registry holds the record of {X, Y}
\* with previous = TRUE and current = FALSE, with X resolvable. So no step of
\* the upstream and no pass over any other registry ends a membership: one
\* left behind by a record removed while its pair was active, or by an
\* entity unresolvable in the pass where its pair ended, stays through every
\* later pass that does not present the pair as Ended.
C18_RemovalOnlyOnEnded ==
    [][\A x, y \in Entities :
          (y \in colliding[x] /\ y \notin colliding'[x]) =>
              /\ PassStep
              /\ x \in resolvable
              /\ \E i \in Positions :
                    /\ PairOf(collisions[i]) = {x, y}
                    /\ EndedClass(collisions[i])]_vars

\* After a pass with every entity resolvable: a membership of a pair whose
\* record is gone and a membership of a pair whose record is past its end
\* (both flags FALSE) are both still there, as they were before the pass.
C18_Witness ==
    /\ Done
    /\ resolvable = Entities
    /\ \E x, y \in Entities :
          /\ x # y
          /\ ~InRegistry({x, y})
          /\ y \in pre[x]
          /\ y \in colliding[x]
    /\ \E i \in Positions :
          /\ SilentClass(collisions[i])
          /\ collisions[i].entity1 \in pre[collisions[i].entity2]
          /\ collisions[i].entity1 \in colliding[collisions[i].entity2]

====
